---- MODULE Spec2Model ----
(***************************************************************************)
(* A model of the gcloud-opentracing span recorder (package gcloudtracer). *)
(*                                                                         *)
(*   recorder.go   NewRecorder, Recorder.RecordSpan, Recorder.upload,      *)
(*                 convertTags, transposeLabels, addLogs, labelMap         *)
(*   options file  Options, Options.Valid, WithProject, WithLogger,        *)
(*                 WithJWTCredentials                                      *)
(*   errors.go     ErrInvalidProjectID                                     *)
(*   logger.go     Logger, defaultLogger                                   *)
(*                                                                         *)
(* The batch engine (google.golang.org/api/support/bundler) is used by     *)
(* recorder.go but its code is not part of the sources; the operators      *)
(* BundlerAdd, addLocked, closeBundle, TimerFire and Tick follow the       *)
(* contract the specification gives for it (sections 4.3 and 5).           *)
(*                                                                         *)
(* The specifications of the module:                                       *)
(*   Spec             the running recorder (RecordSpan, timer, handler)    *)
(*   FairSpec         the same while the process lives, goroutines fair    *)
(*   SpecCtor         NewRecorder over sequences of options                *)
(*   SpecLabels       convertTags followed by transposeLabels              *)
(*   SpecLogs         addLogs                                              *)
(***************************************************************************)
EXTENDS Integers, Sequences, FiniteSets, TLC

VARIABLES
    alive,        \* the process holding the Recorder is still running
    nextId,       \* number of RecordSpan calls made so far; the next span's id
    last,         \* history: the operation that made the last step
    curBundle,    \* bundler.curBundle.items: the pending bundle (span ids)
    closed,       \* bundles handed to the handler goroutine, not yet handled
    bufferedSize, \* bundler.bufferedSize
    timer,        \* seconds left on the delay timer, -1 when not armed
    age,          \* seconds since the first still-pending record was added
    uploads,      \* every PatchTraces call made so far, in order
    log,          \* every Logger.Errorf call made so far, in order
    ctor,         \* NewRecorder: its arguments and what it returned
    conv,         \* convertTags/transposeLabels: input tags and output labels
    flat          \* addLogs: input log records and output labels

vars == <<alive, nextId, last, curBundle, closed, bufferedSize, timer, age,
          uploads, log, ctor, conv, flat>>

recVars == <<alive, nextId, last, curBundle, closed, bufferedSize, timer, age,
             uploads, log>>

-----------------------------------------------------------------------------
(* Bounds of the model.                                                    *)

\* RecordSpan calls explored.
MaxSpans == 5

\* The bundler thresholds NewRecorder sets (recorder.go:86-90), scaled down
\* from 100 / 1000 / 1000 / 10000 so that every threshold is reached within
\* MaxSpans calls.  As in the source, a bundle of BundleCountThreshold
\* records of weight 2 stays below the byte threshold and the byte limit.
BundleCountThreshold == 2
BundleByteThreshold == 6
BundleByteLimit == 6
BufferedByteLimit == 6

-----------------------------------------------------------------------------
(* Program constants.                                                      *)

\* bundler.DelayThreshold = 2 * time.Second, in seconds.
DelayThreshold == 2

\* r.bundler.Add(trace, 2): size = (1 trace + 1 span).
RecordWeight == 2

-----------------------------------------------------------------------------
(* The bundler, as an operator on its state B = [cur, closed, buffered,    *)
(* timer, age].                                                            *)

BundleSize(items) == Len(items) * RecordWeight

\* closeAndHandleBundle: the whole pending bundle moves to the handler queue.
closeBundle(B) ==
    IF B.cur = <<>> THEN B
    ELSE [B EXCEPT !.closed = Append(@, B.cur), !.cur = <<>>]

addLocked(B, item, size) ==
    LET B1 == IF BundleByteLimit > 0 /\ BundleSize(B.cur) + size > BundleByteLimit
              THEN closeBundle(B) ELSE B
        B2 == [B1 EXCEPT !.cur = Append(@, item), !.buffered = @ + size]
        B3 == IF Len(B2.cur) = 1
              THEN [B2 EXCEPT !.timer = DelayThreshold, !.age = 0] ELSE B2
        B4 == IF Len(B3.cur) = BundleCountThreshold THEN closeBundle(B3) ELSE B3
        B5 == IF BundleSize(B4.cur) >= BundleByteThreshold THEN closeBundle(B4) ELSE B4
    IN  B5

\* Bundler.Add: [err, B].
BundlerAdd(B, item, size) ==
    IF B.buffered + size > BufferedByteLimit
    THEN [err |-> "ErrOverflow", B |-> B]
    ELSE [err |-> "nil", B |-> addLocked(B, item, size)]

Bundler == [cur |-> curBundle, closed |-> closed, buffered |-> bufferedSize,
            timer |-> timer, age |-> age]

SetBundler(B) ==
    /\ curBundle' = B.cur
    /\ closed' = B.closed
    /\ bufferedSize' = B.buffered
    /\ timer' = B.timer
    /\ age' = B.age

-----------------------------------------------------------------------------
(* Recorder.                                                               *)

\* Recorder.upload: one PatchTraces call; ok is the remote's answer.
uploadBugFirstOnly(ups, traces, ok, via) ==
    Append(ups, [traces |-> SubSeq(traces, 1, 1), ok |-> ok, via |-> via])

upload(ups, traces, ok, via) ==
    Append(ups, [traces |-> traces, ok |-> ok, via |-> via])

Errorf(lg, msg, n) == Append(lg, [msg |-> msg, n |-> n])

\* What RecordSpan does with span sp = [id, sampled]; ok is the answer of
\* the fallback PatchTraces call, should one be made.  The call is one step:
\* Add runs under the bundler's lock, and the fallback upload that follows it
\* touches only the upload sink and the logger.
RecordSpanBugNoGuard(sp, ok) ==
    LET r == BundlerAdd(Bundler, sp.id, RecordWeight)
    IN  IF r.err = "ErrOverflow"
        THEN /\ uploads' = upload(uploads, <<sp.id>>, ok, "fallback")
             /\ log' = IF ok
                       THEN Errorf(log, "bundle too full", 0)
                       ELSE Errorf(Errorf(log, "bundle too full", 0),
                                   "error uploading trace", 0)
             /\ UNCHANGED <<curBundle, closed, bufferedSize, timer, age>>
        ELSE /\ SetBundler(r.B)
             /\ UNCHANGED <<uploads, log>>

RecordSpanBugNoFallback(sp, ok) ==
    IF ~sp.sampled
    THEN UNCHANGED <<curBundle, closed, bufferedSize, timer, age, uploads, log>>
    ELSE LET r == BundlerAdd(Bundler, sp.id, RecordWeight)
         IN  IF r.err = "ErrOverflow"
             THEN UNCHANGED <<curBundle, closed, bufferedSize, timer, age, uploads, log>>
             ELSE /\ SetBundler(r.B)
                  /\ UNCHANGED <<uploads, log>>

RecordSpanBugAlsoEnqueue(sp, ok) ==
    IF ~sp.sampled
    THEN UNCHANGED <<curBundle, closed, bufferedSize, timer, age, uploads, log>>
    ELSE LET r == BundlerAdd(Bundler, sp.id, RecordWeight)
         IN  IF r.err = "ErrOverflow"
             THEN /\ uploads' = upload(uploads, <<sp.id>>, ok, "fallback")
                  /\ log' = IF ok
                            THEN Errorf(log, "bundle too full", 0)
                            ELSE Errorf(Errorf(log, "bundle too full", 0),
                                        "error uploading trace", 0)
                  /\ SetBundler(addLocked(Bundler, sp.id, RecordWeight))
             ELSE /\ SetBundler(r.B)
                  /\ UNCHANGED <<uploads, log>>

RecordSpan(sp, ok) ==
    IF ~sp.sampled
    THEN UNCHANGED <<curBundle, closed, bufferedSize, timer, age, uploads, log>>
    ELSE LET r == BundlerAdd(Bundler, sp.id, RecordWeight)
         IN  IF r.err = "ErrOverflow"
             THEN /\ uploads' = upload(uploads, <<sp.id>>, ok, "fallback")
                  /\ log' = IF ok
                            THEN Errorf(log, "bundle too full", 0)
                            ELSE Errorf(Errorf(log, "bundle too full", 0),
                                        "error uploading trace", 0)
                  /\ UNCHANGED <<curBundle, closed, bufferedSize, timer, age>>
             ELSE /\ SetBundler(r.B)
                  /\ UNCHANGED <<uploads, log>>

\* The bundle handler NewRecorder installs: upload the bundle, log a failure.
HandlerBugRetry(bundle, ok) ==
    /\ uploads' = upload(uploads, bundle, ok, "bundle")
    /\ log' = IF ok THEN log ELSE Errorf(log, "failed to upload", Len(bundle))
    /\ closed' = IF ok THEN Tail(closed) ELSE closed
    /\ bufferedSize' = IF ok THEN bufferedSize - BundleSize(bundle) ELSE bufferedSize

HandlerBugNoUpload(bundle, ok) ==
    /\ uploads' = uploads
    /\ log' = log
    /\ closed' = Tail(closed)
    /\ bufferedSize' = bufferedSize - BundleSize(bundle)

Handler(bundle, ok) ==
    /\ uploads' = upload(uploads, bundle, ok, "bundle")
    /\ log' = IF ok THEN log ELSE Errorf(log, "failed to upload", Len(bundle))
    /\ closed' = Tail(closed)
    /\ bufferedSize' = bufferedSize - BundleSize(bundle)

-----------------------------------------------------------------------------
(* Actions of the running recorder.                                        *)

RecordSpanAct ==
    /\ alive
    /\ nextId < MaxSpans
    /\ \E sampled \in BOOLEAN, ok \in BOOLEAN :
         LET sp == [id |-> nextId, sampled |-> sampled]
         IN  /\ RecordSpan(sp, ok)
             /\ last' = [op |-> "RecordSpan", id |-> sp.id, sampled |-> sampled]
    /\ nextId' = nextId + 1
    /\ UNCHANGED <<alive, ctor, conv, flat>>

\* The handler goroutine takes the oldest closed bundle.
HandleAct ==
    /\ alive
    /\ closed # <<>>
    /\ \E ok \in BOOLEAN : Handler(Head(closed), ok)
    /\ last' = [op |-> "Handle", id |-> -1, sampled |-> FALSE]
    /\ UNCHANGED <<alive, nextId, curBundle, timer, age, ctor, conv, flat>>

\* One second passes.  An expired timer fires before more time passes.
Tick ==
    /\ alive
    /\ timer > 0
    /\ timer' = timer - 1
    /\ age' = IF curBundle # <<>> THEN age + 1 ELSE age
    /\ last' = [op |-> "Tick", id |-> -1, sampled |-> FALSE]
    /\ UNCHANGED <<alive, nextId, curBundle, closed, bufferedSize, uploads, log,
                   ctor, conv, flat>>

\* The delay timer expires: the pending bundle, if any, is flushed.
TimerFire ==
    /\ alive
    /\ timer = 0
    /\ SetBundler([closeBundle(Bundler) EXCEPT !.timer = -1])
    /\ last' = [op |-> "TimerFire", id |-> -1, sampled |-> FALSE]
    /\ UNCHANGED <<alive, nextId, uploads, log, ctor, conv, flat>>

\* The process ends.  Recorder has no Close or Flush method and its bundler
\* field is unexported, so nothing runs on the way out.
Discard ==
    /\ alive
    /\ alive' = FALSE
    /\ last' = [op |-> "Discard", id |-> -1, sampled |-> FALSE]
    /\ UNCHANGED <<nextId, curBundle, closed, bufferedSize, timer, age, uploads,
                   log, ctor, conv, flat>>

IdleCtor == [state |-> "idle"]
IdleConv == [state |-> "idle"]
IdleFlat == [state |-> "idle"]

InitRecorder ==
    /\ alive = TRUE
    /\ nextId = 0
    /\ last = [op |-> "NewRecorder", id |-> -1, sampled |-> FALSE]
    /\ curBundle = <<>>
    /\ closed = <<>>
    /\ bufferedSize = 0
    /\ timer = -1
    /\ age = 0
    /\ uploads = <<>>
    /\ log = <<>>

Init ==
    /\ InitRecorder
    /\ ctor = IdleCtor
    /\ conv = IdleConv
    /\ flat = IdleFlat

Running == RecordSpanAct \/ HandleAct \/ Tick \/ TimerFire

Next == Running \/ Discard

Spec == Init /\ [][Next]_vars

\* The process keeps running: time passes, the timer goroutine and the
\* handler goroutine are scheduled.  No fairness on RecordSpan.
FairSpec ==
    /\ Init
    /\ [][Running]_vars
    /\ WF_vars(Tick)
    /\ WF_vars(TimerFire)
    /\ WF_vars(HandleAct)

-----------------------------------------------------------------------------
(* NewRecorder and its options.                                            *)

\* Options given to NewRecorder in one call.
MaxOpts == 3

\* The options a caller can pass: WithProject(pid), WithLogger(logger),
\* WithJWTCredentials(credentials).  A nil logger is the string "nil".
OptionSet ==
    {[kind |-> "WithProject", val |-> ""],
     [kind |-> "WithProject", val |-> "proj"],
     [kind |-> "WithLogger", val |-> "nil"],
     [kind |-> "WithLogger", val |-> "customLogger"],
     [kind |-> "WithJWTCredentials", val |-> "creds"]}

\* var options Options: the zero value.
ZeroOptions == [log |-> "nil", projectID |-> "", credentials |-> ""]

WithProject(o, pid) == [o EXCEPT !.projectID = pid]

WithLogger(o, logger) == [o EXCEPT !.log = logger]

WithJWTCredentials(o, credentials) == [o EXCEPT !.credentials = credentials]

ApplyOption(o, opt) ==
    CASE opt.kind = "WithProject" -> WithProject(o, opt.val)
      [] opt.kind = "WithLogger" -> WithLogger(o, opt.val)
      [] opt.kind = "WithJWTCredentials" -> WithJWTCredentials(o, opt.val)

\* for _, o := range opts { o(&options) }
RECURSIVE ApplyOptions(_, _)
ApplyOptions(o, opts) ==
    IF opts = <<>> THEN o ELSE ApplyOptions(ApplyOption(o, Head(opts)), Tail(opts))

\* Options.Valid
ValidBugNoCheck(o) == "nil"

Valid(o) == IF o.projectID = "" THEN "ErrInvalidProjectID" ELSE "nil"

\* NewRecorder(ctx, opts...): what it returns (rec is <<>> for a nil
\* *Recorder) and what it created on the way.  clientOk is whether
\* cloudtrace.New succeeds.
NewRecorder(opts, clientOk) ==
    LET options == ApplyOptions(ZeroOptions, opts)
        err == Valid(options)
        lg == IF options.log = "nil" THEN "defaultLogger" ELSE options.log
    IN  IF err # "nil"
        THEN [rec |-> <<>>, err |-> err, clientCalled |-> FALSE, bundler |-> FALSE]
        ELSE IF ~clientOk
        THEN [rec |-> <<>>, err |-> "ErrClient", clientCalled |-> TRUE, bundler |-> FALSE]
        ELSE [rec |-> <<[project |-> options.projectID, log |-> lg]>>,
              err |-> "nil", clientCalled |-> TRUE, bundler |-> TRUE]

RECURSIVE SeqsUpTo(_, _)
SeqsUpTo(S, n) ==
    IF n = 0 THEN {<<>>}
    ELSE LET shorter == SeqsUpTo(S, n - 1)
         IN  shorter \cup {Append(q, x) : q \in shorter, x \in S}

InitCtor ==
    /\ InitRecorder
    /\ ctor \in {[state |-> "args", opts |-> opts] : opts \in SeqsUpTo(OptionSet, MaxOpts)}
    /\ conv = IdleConv
    /\ flat = IdleFlat

NewRecorderAct ==
    /\ ctor.state = "args"
    /\ \E clientOk \in BOOLEAN :
         ctor' = [state |-> "returned", opts |-> ctor.opts,
                  out |-> NewRecorder(ctor.opts, clientOk)]
    /\ UNCHANGED <<recVars, conv, flat>>

SpecCtor == InitCtor /\ [][NewRecorderAct]_vars

-----------------------------------------------------------------------------
(* convertTags and transposeLabels.                                        *)

\* Tags in one span.
MaxTags == 3

WellKnown == {"peer.hostname", "http.method", "http.status_code", "http.url"}

labelMap ==
    [k \in WellKnown |->
       CASE k = "peer.hostname" -> "trace.cloud.google.com/http/host"
         [] k = "http.method" -> "trace.cloud.google.com/http/method"
         [] k = "http.status_code" -> "trace.cloud.google.com/http/status_code"
         [] k = "http.url" -> "trace.cloud.google.com/http/url"]

\* Tag keys a span may carry: the well-known ones, the gcloud-native ones
\* and one that is neither.
TagKeys == WellKnown \cup {labelMap[k] : k \in WellKnown} \cup {"custom"}

\* Tag values: strings, ints and a value of another type (a bool).
TagValues ==
    {[t |-> "string", s |-> "a", n |-> 0],
     [t |-> "string", s |-> "b", n |-> 0],
     [t |-> "int", s |-> "", n |-> 200],
     [t |-> "bool", s |-> "", n |-> 0]}

Digit(d) ==
    CASE d = 0 -> "0" [] d = 1 -> "1" [] d = 2 -> "2" [] d = 3 -> "3" [] d = 4 -> "4"
      [] d = 5 -> "5" [] d = 6 -> "6" [] d = 7 -> "7" [] d = 8 -> "8" [] d = 9 -> "9"

\* strconv.Itoa
RECURSIVE Itoa(_)
Itoa(n) ==
    IF n < 0 THEN "-" \o Itoa(0 - n)
    ELSE IF n < 10 THEN Digit(n)
    ELSE Itoa(n \div 10) \o Digit(n % 10)

MapPut(m, k, v) == [x \in DOMAIN m \cup {k} |-> IF x = k THEN v ELSE m[x]]

MapDelete(m, k) == [x \in DOMAIN m \ {k} |-> m[x]]

convertTags(tags) ==
    LET kept == {k \in DOMAIN tags : tags[k].t \in {"int", "string"}}
    IN  [k \in kept |-> IF tags[k].t = "int" THEN Itoa(tags[k].n) ELSE tags[k].s]

\* transposeLabels, with the order in which range visits labelMap.
RECURSIVE transposeLabelsBugNoDelete(_, _)
transposeLabelsBugNoDelete(labels, order) ==
    IF order = <<>> THEN labels
    ELSE LET k == Head(order)
         IN  IF k \in DOMAIN labels
             THEN transposeLabelsBugNoDelete(MapPut(labels, labelMap[k], labels[k]),
                                             Tail(order))
             ELSE transposeLabelsBugNoDelete(labels, Tail(order))

RECURSIVE transposeLabels(_, _)
transposeLabels(labels, order) ==
    IF order = <<>> THEN labels
    ELSE LET k == Head(order)
         IN  IF k \in DOMAIN labels
             THEN transposeLabels(MapDelete(MapPut(labels, labelMap[k], labels[k]), k),
                                  Tail(order))
             ELSE transposeLabels(labels, Tail(order))

\* The orders in which a range over labelMap can visit its keys.
IterationOrders ==
    {o \in [1..Cardinality(WellKnown) -> WellKnown] :
        \A i, j \in DOMAIN o : i # j => o[i] # o[j]}

TagMaps ==
    UNION {[K -> TagValues] : K \in {K \in SUBSET TagKeys : Cardinality(K) <= MaxTags}}

InitLabels ==
    /\ InitRecorder
    /\ ctor = IdleCtor
    /\ conv \in {[state |-> "tags", tags |-> tags] : tags \in TagMaps}
    /\ flat = IdleFlat

\* RecordSpan, lines 103-104: labels := convertTags(sp.Tags); transposeLabels(labels)
ConvertAct ==
    /\ conv.state = "tags"
    /\ \E order \in IterationOrders :
         conv' = [state |-> "labels", tags |-> conv.tags,
                  labels |-> transposeLabels(convertTags(conv.tags), order)]
    /\ UNCHANGED <<recVars, ctor, flat>>

SpecLabels == InitLabels /\ [][ConvertAct]_vars

-----------------------------------------------------------------------------
(* addLogs.                                                                *)

\* Log records in one span, and fields in one log record.
MaxLogs == 2
MaxFields == 2

\* Log fields: a string-valued one and an int-valued one.
LogFields ==
    {[key |-> "event", t |-> "string", s |-> "retry", n |-> 0],
     [key |-> "attempt", t |-> "int", s |-> "", n |-> 12]}

\* Timestamps: seconds after 2017-01-01 00:00:00 UTC.
LogTimes == {0, 5}

\* time.Time.String
TimeString(t) == "2017-01-01 00:00:0" \o Digit(t) \o " +0000 UTC"

\* fmt.Sprint of a field value
Sprint(f) == IF f.t = "int" THEN Itoa(f.n) ELSE f.s

LogRecords ==
    {[ts |-> t, fields |-> fs] : t \in LogTimes, fs \in SeqsUpTo(LogFields, MaxFields)}

\* The inner loop of addLogs from field index j (0-based) on.
RECURSIVE writeFields(_, _, _)
writeFields(buf, fields, j) ==
    IF j >= Len(fields) THEN buf
    ELSE LET f == fields[j + 1]
             b1 == buf \o f.key \o "=" \o Sprint(f)
             b2 == IF j # Len(fields) + 1 THEN b1 \o " " ELSE b1
         IN  writeFields(b2, fields, j + 1)

\* The outer loop of addLogs from log index i (0-based) on.
RECURSIVE addLogsFrom(_, _, _)
addLogsFrom(target, logs, i) ==
    IF i >= Len(logs) THEN target
    ELSE LET l == logs[i + 1]
             buf == writeFields(TimeString(l.ts), l.fields, 0)
         IN  addLogsFrom(MapPut(target, "event_" \o Itoa(i), buf), logs, i + 1)

addLogs(target, logs) == addLogsFrom(target, logs, 0)

InitLogs ==
    /\ InitRecorder
    /\ ctor = IdleCtor
    /\ conv = IdleConv
    /\ flat \in {[state |-> "logs", logs |-> logs] : logs \in SeqsUpTo(LogRecords, MaxLogs)}

\* RecordSpan, line 105, on an empty label map.
AddLogsAct ==
    /\ flat.state = "logs"
    /\ flat' = [state |-> "labels", logs |-> flat.logs, labels |-> addLogs(<<>>, flat.logs)]
    /\ UNCHANGED <<recVars, ctor, conv>>

SpecLogs == InitLogs /\ [][AddLogsAct]_vars

-----------------------------------------------------------------------------
(* Properties of the running recorder.                                     *)

Range(s) == {s[i] : i \in DOMAIN s}

\* The ids handed to the upload sink so far.
UploadedIds == UNION {Range(uploads[i].traces) : i \in DOMAIN uploads}

ClosedIds == UNION {Range(closed[i]) : i \in DOMAIN closed}

\* The step is a RecordSpan call.
IsRecordSpanStep == nextId' = nextId + 1

\* The step is a RecordSpan call on a sampled span that the bundler accepts.
IsAcceptedStep ==
    IsRecordSpanStep /\ last'.sampled /\ bufferedSize + RecordWeight <= BufferedByteLimit

\* The step is a RecordSpan call on a sampled span that overflows the buffer.
IsOverflowStep ==
    IsRecordSpanStep /\ last'.sampled /\ bufferedSize + RecordWeight > BufferedByteLimit

Increasing(s) == \A i, j \in DOMAIN s : i < j => s[i] < s[j]

\* C1: RecordSpan on a span whose sampling flag is false changes nothing:
\* no record is enqueued, the pending bundle, the closed bundles, the buffered
\* weight and the timer stay as they are, no PatchTraces call is made and
\* nothing is logged.
C1_UnsampledIsNoOp ==
    [][(IsRecordSpanStep /\ ~last'.sampled)
        => UNCHANGED <<curBundle, closed, bufferedSize, timer, uploads, log>>]_vars

\* An unsampled span was recorded while a bundle was pending.
C1_Witness ==
    /\ last.op = "RecordSpan"
    /\ ~last.sampled
    /\ curBundle # <<>>

\* C2: when the buffered weight plus the record's weight 2 exceeds the
\* buffered limit, the record is not added to the pending bundle, exactly one
\* PatchTraces call is made and it carries exactly that record; the overflow
\* is logged, a failure of the fallback upload is logged as well, and the
\* record is kept nowhere for a retry.
C2_OverflowFallback ==
    [][IsOverflowStep =>
         /\ UNCHANGED <<curBundle, closed, bufferedSize>>
         /\ Len(uploads') = Len(uploads) + 1
         /\ SubSeq(uploads', 1, Len(uploads)) = uploads
         /\ uploads'[Len(uploads')].traces = <<nextId>>
         /\ uploads'[Len(uploads')].via = "fallback"
         /\ LET ok == uploads'[Len(uploads')].ok
                new == SubSeq(log', Len(log) + 1, Len(log'))
            IN  /\ SubSeq(log', 1, Len(log)) = log
                /\ new = IF ok
                         THEN <<[msg |-> "bundle too full", n |-> 0]>>
                         ELSE <<[msg |-> "bundle too full", n |-> 0],
                                [msg |-> "error uploading trace", n |-> 0]>>
         /\ nextId \notin Range(curBundle') \cup ClosedIds'
      ]_vars

\* A record overflowed and its fallback upload failed.
C2_Witness ==
    /\ last.op = "RecordSpan"
    /\ last.sampled
    /\ uploads # <<>>
    /\ uploads[Len(uploads)] = [traces |-> <<last.id>>, ok |-> FALSE, via |-> "fallback"]
    /\ log # <<>>
    /\ log[Len(log)].msg = "error uploading trace"

\* C3: the enqueue that brings the pending record count to the bundle count
\* threshold closes exactly one bundle, which holds every record accumulated
\* since the bundle was empty, in enqueue order, and leaves the pending bundle
\* empty; the handler then gives exactly that bundle to the upload sink.
C3_CountFlush ==
    [][/\ (/\ IsAcceptedStep
           /\ BundleSize(curBundle) + RecordWeight <= BundleByteLimit
           /\ Len(curBundle) + 1 = BundleCountThreshold)
          => /\ closed' = Append(closed, Append(curBundle, nextId))
             /\ Increasing(Append(curBundle, nextId))
             /\ curBundle' = <<>>
             /\ uploads' = uploads
       /\ (last'.op = "Handle" /\ closed # <<>>)
          => /\ Len(uploads') = Len(uploads) + 1
             /\ uploads'[Len(uploads')].traces = Head(closed)
      ]_vars

\* A bundle of exactly BundleCountThreshold records reached the upload sink
\* and nothing is pending.
C3_Witness ==
    /\ last.op = "Handle"
    /\ uploads # <<>>
    /\ uploads[Len(uploads)].via = "bundle"
    /\ Len(uploads[Len(uploads)].traces) = BundleCountThreshold
    /\ curBundle = <<>>

\* C4: a record that is alone in the pending bundle is flushed by the timer
\* and reaches the upload sink without any further RecordSpan call, and the
\* timer never flushes a bundle whose first record is less than 2 seconds old.
C4_TimerFlush ==
    /\ [][(last'.op = "TimerFire" /\ curBundle # <<>>)
           => (age >= 2 /\ curBundle' = <<>> /\ closed' = Append(closed, curBundle))]_vars
    /\ \A id \in 0..MaxSpans : (curBundle = <<id>>) ~> (id \in UploadedIds)

\* After a single RecordSpan call the record reached the upload sink.
C4_Witness ==
    /\ nextId = 1
    /\ last.op = "Handle"
    /\ Len(uploads) = 1
    /\ uploads[1].traces = <<0>>
    /\ uploads[1].via = "bundle"

FailedBundleUploads == SelectSeq(uploads, LAMBDA u : u.via = "bundle" /\ ~u.ok)

FailureLogs == SelectSeq(log, LAMBDA l : l.msg = "failed to upload")

RECURSIVE SumSizes(_)
SumSizes(bs) == IF bs = <<>> THEN 0 ELSE BundleSize(Head(bs)) + SumSizes(Tail(bs))

\* C5: a bundle whose upload failed is logged once, with its record count,
\* and is gone: its records are neither pending, nor queued for the handler,
\* nor in any other upload, and the weight it held is released so that later
\* RecordSpan calls are accepted as before.
C5_FailedUploadIsTerminal ==
    /\ \A i \in DOMAIN uploads :
         (uploads[i].via = "bundle" /\ ~uploads[i].ok) =>
            \A id \in Range(uploads[i].traces) :
               /\ id \notin Range(curBundle) \cup ClosedIds
               /\ \A j \in DOMAIN uploads : j # i => id \notin Range(uploads[j].traces)
    /\ Len(FailureLogs) = Len(FailedBundleUploads)
    /\ \A k \in DOMAIN FailureLogs :
          FailureLogs[k].n = Len(FailedBundleUploads[k].traces)
    /\ bufferedSize = BundleSize(curBundle) + SumSizes(closed)

\* A bundle upload failed and a later bundle was uploaded successfully.
C5_Witness ==
    \E i, j \in DOMAIN uploads :
       /\ i < j
       /\ uploads[i].via = "bundle" /\ ~uploads[i].ok
       /\ uploads[j].via = "bundle" /\ uploads[j].ok
       /\ last.op = "Handle"

\* C6: when the recorder is discarded every record it accepted has been
\* handed to the upload sink.
C6_TeardownDrains ==
    ~alive => (Range(curBundle) \cup ClosedIds) \subseteq UploadedIds

\* All the places a record can be, one after another.
RECURSIVE Flatten(_)
Flatten(ss) == IF ss = <<>> THEN <<>> ELSE Head(ss) \o Flatten(Tail(ss))

AllPlaces ==
    Flatten([i \in DOMAIN uploads |-> uploads[i].traces]) \o Flatten(closed) \o curBundle

NoDuplicates(s) == \A i, j \in DOMAIN s : i # j => s[i] # s[j]

\* C10: no record is in two places: each id occurs at most once among the
\* uploads, the closed bundles and the pending bundle, so no record reaches
\* the upload sink in two bundles and an overflowed record is uploaded by the
\* fallback alone; and whenever a bundle is closed it is the whole pending
\* bundle, which is empty afterwards.
C10_NoDoubleDelivery ==
    /\ [](NoDuplicates(AllPlaces))
    /\ [](\A i \in DOMAIN uploads :
            uploads[i].via = "fallback" => Len(uploads[i].traces) = 1)
    /\ [][Len(closed') > Len(closed) =>
            LET moved == closed'[Len(closed')]
            IN  /\ closed' = Append(closed, moved)
                /\ curBundle # <<>> => SubSeq(moved, 1, Len(curBundle)) = curBundle
                /\ moved \o curBundle' \in {curBundle, Append(curBundle, nextId)}
                /\ Len(curBundle') <= 1]_vars

\* A timer-flushed bundle, a count-flushed bundle and a fallback upload all
\* reached the upload sink.
C10_Witness ==
    /\ \E i \in DOMAIN uploads : uploads[i].via = "fallback"
    /\ \E i \in DOMAIN uploads :
          uploads[i].via = "bundle" /\ Len(uploads[i].traces) < BundleCountThreshold
    /\ \E i \in DOMAIN uploads :
          uploads[i].via = "bundle" /\ Len(uploads[i].traces) = BundleCountThreshold

-----------------------------------------------------------------------------
(* Properties of NewRecorder, transposeLabels and addLogs.                 *)

\* The value of the last option of the given kind, or the zero value.
LastOption(opts, kind, zero) ==
    LET at == {i \in DOMAIN opts : opts[i].kind = kind}
    IN  IF at = {} THEN zero
        ELSE opts[CHOOSE i \in at : \A j \in at : j <= i].val

\* C7: if the options leave the project identifier empty, NewRecorder
\* returns ErrInvalidProjectID and no recorder, and has created neither the
\* trace client nor the bundler; otherwise validation passes, and a recorder
\* that is returned logs to the given logger, or to the default logger when
\* none (or nil) was given.
C7_EagerValidation ==
    ctor.state = "returned" =>
       LET pid == LastOption(ctor.opts, "WithProject", "")
           lg == LastOption(ctor.opts, "WithLogger", "nil")
           out == ctor.out
       IN  /\ pid = "" => /\ out.err = "ErrInvalidProjectID"
                          /\ out.rec = <<>>
                          /\ ~out.clientCalled
                          /\ ~out.bundler
           /\ pid # "" => /\ out.err # "ErrInvalidProjectID"
                          /\ out.clientCalled
                          /\ out.rec # <<>> =>
                               /\ out.err = "nil"
                               /\ out.bundler
                               /\ out.rec[1].project = pid
                               /\ out.rec[1].log =
                                     IF lg = "nil" THEN "defaultLogger" ELSE lg

\* NewRecorder was given a project and then an empty project, and refused.
C7_Witness ==
    /\ ctor.state = "returned"
    /\ Len(ctor.opts) = 2
    /\ ctor.opts[1] = [kind |-> "WithProject", val |-> "proj"]
    /\ ctor.opts[2] = [kind |-> "WithProject", val |-> ""]
    /\ ctor.out.err = "ErrInvalidProjectID"

Converted == convertTags(conv.tags)

RewrittenWellKnown(k) ==
    k \in DOMAIN Converted =>
       /\ labelMap[k] \in DOMAIN conv.labels
       /\ conv.labels[labelMap[k]] = Converted[k]
       /\ k \notin DOMAIN conv.labels

\* The gcloud-native keys that a well-known key present after conversion
\* is rewritten to.
WrittenKeys == {labelMap[k] : k \in WellKnown \cap DOMAIN Converted}

\* C8 as stated: every well-known key present after conversion is moved to
\* its gcloud-native key, and every other converted label is unchanged.
C8_AsStated ==
    conv.state = "labels" =>
       /\ \A k \in WellKnown : RewrittenWellKnown(k)
       /\ \A k \in DOMAIN Converted \ WellKnown :
             k \in DOMAIN conv.labels /\ conv.labels[k] = Converted[k]

\* C8, amended: every well-known key present after conversion is moved to
\* its gcloud-native key; every other converted label is unchanged unless its
\* key is the gcloud-native key of a present well-known key, in which case it
\* is overwritten; the result has no other keys, whatever the iteration order.
C8_Transpose ==
    conv.state = "labels" =>
       /\ \A k \in WellKnown : RewrittenWellKnown(k)
       /\ \A k \in (DOMAIN Converted \ WellKnown) \ WrittenKeys :
             k \in DOMAIN conv.labels /\ conv.labels[k] = Converted[k]
       /\ DOMAIN conv.labels = (DOMAIN Converted \ WellKnown) \cup WrittenKeys

\* Tags {peer.hostname: "a", trace.cloud.google.com/http/host: "b",
\* custom: "b"} were converted.
C8_Witness ==
    /\ conv.state = "labels"
    /\ DOMAIN conv.tags = {"peer.hostname", "trace.cloud.google.com/http/host", "custom"}
    /\ conv.tags["peer.hostname"].s = "a"
    /\ conv.tags["trace.cloud.google.com/http/host"].s = "b"
    /\ conv.tags["custom"].s = "b"
    /\ conv.labels["trace.cloud.google.com/http/host"] = "a"
    /\ conv.labels["custom"] = "b"

\* key=value renderings joined by single spaces.
RECURSIVE JoinFields(_)
JoinFields(fields) ==
    IF fields = <<>> THEN ""
    ELSE IF Len(fields) = 1 THEN Head(fields).key \o "=" \o Sprint(Head(fields))
    ELSE Head(fields).key \o "=" \o Sprint(Head(fields)) \o " " \o JoinFields(Tail(fields))

\* C9: log event i (0-based) becomes label event_<i>, whose value is the
\* timestamp's string form followed by the fields rendered key=value and
\* joined by single spaces, with no space after the last field.
C9_LogFlattening ==
    flat.state = "labels" =>
       /\ DOMAIN flat.labels = {"event_" \o Itoa(i - 1) : i \in DOMAIN flat.logs}
       /\ \A i \in DOMAIN flat.logs :
             flat.labels["event_" \o Itoa(i - 1)] =
                TimeString(flat.logs[i].ts) \o JoinFields(flat.logs[i].fields)

====
